---- MODULE Spec2Model ----
(***************************************************************************)
(* Page selection and incremental pagination of the PDF manager client    *)
(* (client/src/App.jsx): the page-pattern parser as operators, and the    *)
(* App component's state with its asynchronous handlers as actions.       *)
(***************************************************************************)
EXTENDS Integers, Sequences, FiniteSets, Bags, TLC

VARIABLES
    pattern,            \* parsePagePattern argument: the pattern, a sequence of characters
    maxPages,           \* parsePagePattern argument: maxPages
    parsed,             \* the value returned by parsePagePattern, NotParsed before the call
    documents,          \* useState([]): the ids of the listed documents
    selectedDocumentId, \* useState(null)
    pages,              \* useState([]): the previews shown, each <<document, page index>>
    selectedPages,      \* useState(new Set())
    pagePattern,        \* useState('1')
    statusMessage,      \* useState('')
    loadingDocuments,   \* useState(false)
    loadingPages,       \* useState(false)
    pageOffset,         \* useState(0)
    hasMorePages,       \* useState(false)
    totalPageCount,     \* useState(0)
    fetches,            \* the fetchPages calls awaited by a handler, a bag of requests
    listFetches,        \* the number of fetchDocuments calls awaited by loadDocuments
    slices,             \* the sliceDocument calls awaited by handleSlice, a bag of payloads
    deletes,            \* the deleteDocument calls awaited by handleDeleteDocument, a bag
    serverDocuments,    \* the ids of the documents the server holds
    serverPages,        \* the number of pages of each document on the server
    event               \* the handler step taken last, with the request it settled

parserVars == <<pattern, maxPages, parsed>>

deleteVars == <<deletes, serverDocuments>>

windowVars == <<pages, pageOffset, hasMorePages, totalPageCount>>

appVars == <<documents, selectedDocumentId, pages, selectedPages, pagePattern,
             statusMessage, loadingDocuments, loadingPages, pageOffset,
             hasMorePages, totalPageCount, fetches, listFetches, slices, deletes,
             serverDocuments, serverPages, event>>

vars == <<pattern, maxPages, parsed, documents, selectedDocumentId, pages,
          selectedPages, pagePattern, statusMessage, loadingDocuments,
          loadingPages, pageOffset, hasMorePages, totalPageCount, fetches,
          listFetches, slices, deletes, serverDocuments, serverPages, event>>

(***************************************************************************)
(* Characters.  A string is a sequence of one-character strings; the      *)
(* en-dash U+2013 is written "EN".                                         *)
(***************************************************************************)
Comma == ","
Hyphen == "-"
EnDash == "EN"
Space == " "
Plus == "+"
DigitChars == <<"0", "1", "2", "3", "4", "5", "6", "7", "8", "9">>
DigitSet == {DigitChars[i] : i \in 1..10}
DigitVal(c) == (CHOOSE i \in 1..10 : DigitChars[i] = c) - 1

(***************************************************************************)
(* String.prototype.split(sep) for a one-character separator.             *)
(***************************************************************************)
RECURSIVE split(_, _)
split(s, sep) ==
    IF \E i \in 1..Len(s) : s[i] = sep
    THEN LET i == CHOOSE k \in 1..Len(s) :
                      s[k] = sep /\ \A j \in 1..(k - 1) : s[j] # sep
         IN  <<SubSeq(s, 1, i - 1)>> \o split(SubSeq(s, i + 1, Len(s)), sep)
    ELSE <<s>>

(* String.prototype.trim(): strips leading and trailing white space. *)
RECURSIVE trim(_)
trim(s) ==
    IF s = <<>> THEN s
    ELSE IF Head(s) = Space THEN trim(Tail(s))
    ELSE IF s[Len(s)] = Space THEN trim(SubSeq(s, 1, Len(s) - 1))
    ELSE s

(* Array.prototype.filter(Boolean) on strings: drops the empty strings. *)
filterBoolean(pieces) == SelectSeq(pieces, LAMBDA p : p # <<>>)

(* Array.prototype.map(piece => piece.trim()) *)
mapTrim(pieces) == [i \in 1..Len(pieces) |-> trim(pieces[i])]

(* replaceFirst left out: the entry is used as typed *)
replaceNothing(s, from, to) == s

(* String.prototype.replace(EnDash, Hyphen): the first occurrence only. *)
replaceFirst(s, from, to) ==
    IF \E i \in 1..Len(s) : s[i] = from
    THEN LET i == CHOOSE k \in 1..Len(s) :
                      s[k] = from /\ \A j \in 1..(k - 1) : s[j] # from
         IN  [s EXCEPT ![i] = to]
    ELSE s

(* String.prototype.includes(c) *)
includes(s, c) == \E i \in 1..Len(s) : s[i] = c

(***************************************************************************)
(* Number.parseInt(s, 10): skips leading white space, takes an optional   *)
(* sign, then the longest run of decimal digits; what follows the digits  *)
(* is ignored; NaN when there is no digit.                                 *)
(***************************************************************************)
RECURSIVE skipSpace(_)
skipSpace(s) == IF s # <<>> /\ Head(s) = Space THEN skipSpace(Tail(s)) ELSE s

RECURSIVE digitRun(_)
digitRun(s) ==
    IF s # <<>> /\ Head(s) \in DigitSet THEN <<Head(s)>> \o digitRun(Tail(s)) ELSE <<>>

RECURSIVE decimal(_)
decimal(ds) ==
    IF ds = <<>> THEN 0
    ELSE 10 * decimal(SubSeq(ds, 1, Len(ds) - 1)) + DigitVal(ds[Len(ds)])

parseInt(s) ==
    LET t    == skipSpace(s)
        neg  == t # <<>> /\ Head(t) = Hyphen
        body == IF t # <<>> /\ Head(t) \in {Hyphen, Plus} THEN Tail(t) ELSE t
        run  == digitRun(body)
    IN  IF run = <<>> THEN [nan |-> TRUE, val |-> 0]
        ELSE [nan |-> FALSE, val |-> IF neg THEN 0 - decimal(run) ELSE decimal(run)]

(* Array.from(set).sort((a, b) => a - b) *)
RECURSIVE sortAscending(_)
sortAscending(S) ==
    IF S = {} THEN <<>>
    ELSE LET m == CHOOSE x \in S : \A y \in S : x <= y
         IN  <<m>> \o sortAscending(S \ {m})

(***************************************************************************)
(* The results of parsePagePattern.  An error message is modelled by its  *)
(* template (kind) and the values interpolated into it.                   *)
(***************************************************************************)
NotParsed == [pages |-> <<>>, error |-> [kind |-> "NotParsed", entry |-> <<>>, num |-> 0]]
NoError == [kind |-> "null", entry |-> <<>>, num |-> 0]
Failure(kind, entry, num) ==
    [pages |-> <<>>, error |-> [kind |-> kind, entry |-> entry, num |-> num]]

(* addRange with the loop stopping one page early: page < endPage *)
addRangeExclusive(collected, startPage, endPage) ==
    collected \cup (startPage..(endPage - 1))

(* for (let page = startPage; page <= endPage; page += 1) collected.add(page) *)
addRange(collected, startPage, endPage) == collected \cup (startPage..endPage)

(* rangeBranch with the document-length check ahead of the order check *)
rangeBranchLengthFirst(entry, normalized, maxP, collected) ==
    LET parts     == mapTrim(split(normalized, Hyphen))
        startPage == parseInt(parts[1])
        endPage   == parseInt(parts[2])
    IN  IF startPage.nan \/ endPage.nan
        THEN [go |-> FALSE, out |-> Failure("InvalidRange", entry, 0)]
        ELSE IF endPage.val > maxP
        THEN [go |-> FALSE, out |-> Failure("RangeExceedsDocument", <<>>, maxP)]
        ELSE IF startPage.val < 1 \/ endPage.val < startPage.val
        THEN [go |-> FALSE, out |-> Failure("RangeOutOfOrder", entry, 0)]
        ELSE [go |-> TRUE, out |-> addRange(collected, startPage.val, endPage.val)]

(* The range branch of the token loop (the token contains a hyphen). *)
rangeBranch(entry, normalized, maxP, collected) ==
    LET parts     == mapTrim(split(normalized, Hyphen))
        startPage == parseInt(parts[1])
        endPage   == parseInt(parts[2])
    IN  IF startPage.nan \/ endPage.nan
        THEN [go |-> FALSE, out |-> Failure("InvalidRange", entry, 0)]
        ELSE IF startPage.val < 1 \/ endPage.val < startPage.val
        THEN [go |-> FALSE, out |-> Failure("RangeOutOfOrder", entry, 0)]
        ELSE IF endPage.val > maxP
        THEN [go |-> FALSE, out |-> Failure("RangeExceedsDocument", <<>>, maxP)]
        ELSE [go |-> TRUE, out |-> addRange(collected, startPage.val, endPage.val)]

(* The single-number branch of the token loop. *)
singleBranch(entry, normalized, maxP, collected) ==
    LET pageNumber == parseInt(normalized)
    IN  IF pageNumber.nan
        THEN [go |-> FALSE, out |-> Failure("InvalidPageNumber", entry, 0)]
        ELSE IF pageNumber.val < 1 \/ pageNumber.val > maxP
        THEN [go |-> FALSE, out |-> Failure("PageOutOfRange", <<>>, pageNumber.val)]
        ELSE [go |-> TRUE, out |-> collected \cup {pageNumber.val}]

(* One iteration of the token loop; "go" carries the set on to the next token. *)
parseEntry(entry, maxP, collected) ==
    LET normalized == replaceFirst(entry, EnDash, Hyphen)
    IN  IF includes(normalized, Hyphen)
        THEN rangeBranch(entry, normalized, maxP, collected)
        ELSE singleBranch(entry, normalized, maxP, collected)

RECURSIVE parseEntries(_, _, _)
parseEntries(entries, maxP, collected) ==
    IF entries = <<>>
    THEN IF collected = {}
         THEN Failure("NoPagesSelected", <<>>, 0)
         ELSE [pages |-> sortAscending(collected), error |-> NoError]
    ELSE LET step == parseEntry(Head(entries), maxP, collected)
         IN  IF step.go THEN parseEntries(Tail(entries), maxP, step.out)
             ELSE step.out

(* tokenize without .filter(Boolean): the empty pieces stay *)
tokenizeKeepingEmpty(pat) == mapTrim(split(pat, Comma))

tokenize(pat) == filterBoolean(mapTrim(split(pat, Comma)))

parsePagePattern(pat, maxP) ==
    LET entries == tokenize(pat)
    IN  IF entries = <<>> THEN Failure("EmptyPattern", <<>>, 0)
        ELSE parseEntries(entries, maxP, {})


(***************************************************************************)
(* The App component.  A handler that awaits a request is one action up   *)
(* to the await and one action per outcome of the request; the values a   *)
(* handler read from its render before the await travel in the request.   *)
(***************************************************************************)
PAGE_BATCH_SIZE == 8

null == "null"
Docs == {"A", "B"}
(* doc.pages of the document list; 0 when the list gives no page count *)
ListedPages == [d \in Docs |-> IF d = "A" THEN 19 ELSE 0]
(* the numbers of previews a fetchPages response may hold *)
BatchLengths == {0, 3, PAGE_BATCH_SIZE}
(* total_pages of a fetchPages response; 0 when the response has none *)
ResponseTotals == {0, 19}
RequestFailed == "Request failed"

MaxInFlight == 2
MaxLoaded == 19

(* String(n) *)
RECURSIVE toString(_)
toString(n) ==
    IF n < 10 THEN <<DigitChars[n + 1]>>
    ELSE toString(n \div 10) \o <<DigitChars[(n % 10) + 1]>>

(* the template literal `1-${n}` *)
rangePattern(n) == <<"1", Hyphen>> \o toString(n)

(* a || b on numbers *)
or(a, b) == IF a # 0 THEN a ELSE b
max(a, b) == IF a >= b THEN a ELSE b

(* the previews the server returns for doc at offset: the next k pages *)
previews(doc, offset, k) == [i \in 1..k |-> <<doc, offset + i>>]

NoRequest == [kind |-> "none", doc |-> null, offset |-> 0, total |-> 0, docPages |-> 0]
NoSlice == [doc |-> null, startPage |-> 0, endPage |-> 0, pages |-> <<>>]
Step(op) == [op |-> op, req |-> NoRequest, k |-> 0, tot |-> 0, slice |-> NoSlice]
Settled(op, r, k, tot) == [op |-> op, req |-> r, k |-> k, tot |-> tot, slice |-> NoSlice]
SliceSettled(op, q) == [op |-> op, req |-> NoRequest, k |-> 0, tot |-> 0, slice |-> q]

InFlight == BagCardinality(fetches)
Issue(r) == fetches (+) SetToBag({r})
Settle(r) == fetches (-) SetToBag({r})

AppInit ==
    /\ documents = {}
    /\ selectedDocumentId = null
    /\ pages = <<>>
    /\ selectedPages = {}
    /\ pagePattern = <<"1">>
    /\ statusMessage = ""
    /\ loadingDocuments = TRUE
    /\ loadingPages = FALSE
    /\ pageOffset = 0
    /\ hasMorePages = FALSE
    /\ totalPageCount = 0
    /\ fetches = EmptyBag
    /\ listFetches = 1
    /\ slices = EmptyBag
    /\ deletes = EmptyBag
    /\ serverDocuments = Docs
    /\ event = Step("mount")

(* loadDocuments after the await: the list arrived *)
loadDocumentsDone ==
    /\ listFetches > 0
    /\ listFetches' = listFetches - 1
    /\ documents' = serverDocuments
    /\ loadingDocuments' = FALSE
    /\ event' = Step("loadDocumentsDone")
    /\ UNCHANGED <<selectedDocumentId, pages, selectedPages, pagePattern,
                   statusMessage, loadingPages, pageOffset, hasMorePages,
                   totalPageCount, fetches>>

(* loadDocuments after the await: fetchDocuments rejected *)
loadDocumentsFailed ==
    /\ listFetches > 0
    /\ listFetches' = listFetches - 1
    /\ statusMessage' = RequestFailed
    /\ loadingDocuments' = FALSE
    /\ event' = Step("loadDocumentsFailed")
    /\ UNCHANGED <<documents, selectedDocumentId, pages, selectedPages,
                   pagePattern, loadingPages, pageOffset, hasMorePages,
                   totalPageCount, fetches>>

(* handleSelectDocument without setPages([]) *)
handleSelectDocumentKeepingPages(docId) ==
    /\ docId \in documents
    /\ docId # selectedDocumentId
    /\ InFlight < MaxInFlight
    /\ selectedDocumentId' = docId
    /\ selectedPages' = {}
    /\ pages' = pages
    /\ pageOffset' = 0
    /\ hasMorePages' = FALSE
    /\ totalPageCount' = or(ListedPages[docId], 0)
    /\ pagePattern' = IF ListedPages[docId] # 0
                      THEN rangePattern(ListedPages[docId]) ELSE <<"1">>
    /\ loadingPages' = TRUE
    /\ fetches' = Issue([kind |-> "select", doc |-> docId, offset |-> 0,
                         total |-> 0, docPages |-> ListedPages[docId]])
    /\ event' = Step("handleSelectDocument")
    /\ UNCHANGED <<documents, statusMessage, loadingDocuments, listFetches>>

(* handleSelectDocument up to the await of fetchPages(docId, 0, 8) *)
handleSelectDocument(docId) ==
    /\ docId \in documents
    /\ docId # selectedDocumentId
    /\ InFlight < MaxInFlight
    /\ selectedDocumentId' = docId
    /\ selectedPages' = {}
    /\ pages' = <<>>
    /\ pageOffset' = 0
    /\ hasMorePages' = FALSE
    /\ totalPageCount' = or(ListedPages[docId], 0)
    /\ pagePattern' = IF ListedPages[docId] # 0
                      THEN rangePattern(ListedPages[docId]) ELSE <<"1">>
    /\ loadingPages' = TRUE
    /\ fetches' = Issue([kind |-> "select", doc |-> docId, offset |-> 0,
                         total |-> 0, docPages |-> ListedPages[docId]])
    /\ event' = Step("handleSelectDocument")
    /\ UNCHANGED <<documents, statusMessage, loadingDocuments, listFetches>>

(* handleSelectDocument after the await: the response holds k previews and total_pages tot *)
selectResolved(r, k, tot) ==
    /\ r \in BagToSet(fetches)
    /\ r.kind = "select"
    /\ LET pagePreviews  == previews(r.doc, 0, k)
           resolvedTotal == max(or(tot, or(r.docPages, or(k, 1))), 1)
       IN  /\ pages' = pagePreviews
           /\ totalPageCount' = resolvedTotal
           /\ pageOffset' = k
           /\ hasMorePages' = (k < resolvedTotal)
           /\ pagePattern' = rangePattern(resolvedTotal)
    /\ loadingPages' = FALSE
    /\ fetches' = Settle(r)
    /\ event' = Settled("selectResolved", r, k, tot)
    /\ UNCHANGED <<documents, selectedDocumentId, selectedPages, statusMessage,
                   loadingDocuments, listFetches>>

(* handleSelectDocument after the await: fetchPages rejected *)
selectRejected(r) ==
    /\ r \in BagToSet(fetches)
    /\ r.kind = "select"
    /\ statusMessage' = RequestFailed
    /\ loadingPages' = FALSE
    /\ fetches' = Settle(r)
    /\ event' = Settled("selectRejected", r, 0, 0)
    /\ UNCHANGED <<documents, selectedDocumentId, pages, selectedPages,
                   pagePattern, loadingDocuments, pageOffset, hasMorePages,
                   totalPageCount, listFetches>>

(* PagePreviewGrid: the sentinel is rendered and observed *)
sentinelObserved == hasMorePages /\ pages # <<>>

(* the guard of loadMorePages *)
loadMoreGuard == selectedDocumentId # null /\ ~loadingPages /\ hasMorePages

(* the observer calls loadMorePages, which runs up to the await of fetchPages *)
loadMorePages ==
    /\ sentinelObserved
    /\ loadMoreGuard
    /\ InFlight < MaxInFlight
    /\ loadingPages' = TRUE
    /\ fetches' = Issue([kind |-> "more", doc |-> selectedDocumentId,
                         offset |-> pageOffset, total |-> totalPageCount,
                         docPages |-> IF selectedDocumentId \in documents
                                      THEN ListedPages[selectedDocumentId] ELSE 0])
    /\ event' = Step("loadMorePages")
    /\ UNCHANGED <<documents, selectedDocumentId, pages, selectedPages,
                   pagePattern, statusMessage, loadingDocuments, pageOffset,
                   hasMorePages, totalPageCount, listFetches>>

(* loadMoreResolved with setPages(nextBatch) in place of the append *)
loadMoreResolvedReplacing(r, k, tot) ==
    /\ r \in BagToSet(fetches)
    /\ r.kind = "more"
    /\ Len(pages) + k <= MaxLoaded
    /\ LET nextBatch     == previews(r.doc, r.offset, k)
           resolvedTotal == or(tot, or(r.total, or(r.docPages, 0)))
           updatedOffset == pageOffset + k
       IN  /\ totalPageCount' = or(resolvedTotal, r.total)
           /\ pages' = nextBatch
           /\ pageOffset' = updatedOffset
           /\ hasMorePages' =
                 IF \/ k = 0
                    \/ (resolvedTotal # 0 /\ updatedOffset >= resolvedTotal)
                    \/ (resolvedTotal = 0 /\ k = 0)
                    \/ k < PAGE_BATCH_SIZE
                 THEN FALSE ELSE hasMorePages
    /\ loadingPages' = FALSE
    /\ fetches' = Settle(r)
    /\ event' = Settled("loadMoreResolved", r, k, tot)
    /\ UNCHANGED <<documents, selectedDocumentId, selectedPages, pagePattern,
                   statusMessage, loadingDocuments, listFetches>>

(* loadMorePages after the await: the response holds k previews and total_pages tot *)
loadMoreResolved(r, k, tot) ==
    /\ r \in BagToSet(fetches)
    /\ r.kind = "more"
    /\ Len(pages) + k <= MaxLoaded
    /\ LET nextBatch     == previews(r.doc, r.offset, k)
           resolvedTotal == or(tot, or(r.total, or(r.docPages, 0)))
           updatedOffset == pageOffset + k
       IN  /\ totalPageCount' = or(resolvedTotal, r.total)
           /\ pages' = pages \o nextBatch
           /\ pageOffset' = updatedOffset
           /\ hasMorePages' =
                 IF \/ k = 0
                    \/ (resolvedTotal # 0 /\ updatedOffset >= resolvedTotal)
                    \/ (resolvedTotal = 0 /\ k = 0)
                    \/ k < PAGE_BATCH_SIZE
                 THEN FALSE ELSE hasMorePages
    /\ loadingPages' = FALSE
    /\ fetches' = Settle(r)
    /\ event' = Settled("loadMoreResolved", r, k, tot)
    /\ UNCHANGED <<documents, selectedDocumentId, selectedPages, pagePattern,
                   statusMessage, loadingDocuments, listFetches>>

(* loadMoreRejected with a catch block that also clears the window *)
loadMoreRejectedClearing(r) ==
    /\ r \in BagToSet(fetches)
    /\ r.kind = "more"
    /\ statusMessage' = RequestFailed
    /\ pages' = <<>>
    /\ pageOffset' = 0
    /\ loadingPages' = FALSE
    /\ fetches' = Settle(r)
    /\ event' = Settled("loadMoreRejected", r, 0, 0)
    /\ UNCHANGED <<documents, selectedDocumentId, selectedPages,
                   pagePattern, loadingDocuments, hasMorePages,
                   totalPageCount, listFetches>>

(* loadMorePages after the await: fetchPages rejected *)
loadMoreRejected(r) ==
    /\ r \in BagToSet(fetches)
    /\ r.kind = "more"
    /\ statusMessage' = RequestFailed
    /\ loadingPages' = FALSE
    /\ fetches' = Settle(r)
    /\ event' = Settled("loadMoreRejected", r, 0, 0)
    /\ UNCHANGED <<documents, selectedDocumentId, pages, selectedPages,
                   pagePattern, loadingDocuments, pageOffset, hasMorePages,
                   totalPageCount, listFetches>>

(***************************************************************************)
(* Selection and slicing.                                                  *)
(***************************************************************************)
(* the page numbers whose thumbnails the user clicks *)
ClickPages == {4}
(* the texts the user types into the pattern field *)
TypedPatterns == {<<>>, <<"4">>}

MaxSlices == 1
MaxListFetches == 1

(* the status messages of handleSlice, each named for its text *)
LoadDocumentFirst == "LoadDocumentFirst"
NothingSelected == "NothingSelected"
SliceCreated == "SliceCreated"
(* parsed.error as a status message: the template of the message *)
errorMessage(err) == err.kind

asSet(q) == {q[i] : i \in 1..Len(q)}

(* togglePageSelection: the click on the thumbnail of page pageNumber *)
togglePageSelection(pageNumber) ==
    /\ \E i \in 1..Len(pages) : pages[i][2] = pageNumber
    /\ selectedPages' = IF pageNumber \in selectedPages
                        THEN selectedPages \ {pageNumber}
                        ELSE selectedPages \cup {pageNumber}
    /\ event' = Step("togglePageSelection")
    /\ UNCHANGED <<documents, selectedDocumentId, pages, pagePattern,
                   statusMessage, loadingDocuments, loadingPages, pageOffset,
                   hasMorePages, totalPageCount, fetches, listFetches, slices>>

(* handlePatternChange: the input is enabled while activeDocument is not null *)
handlePatternChange(value) ==
    /\ selectedDocumentId \in documents
    /\ value # pagePattern
    /\ pagePattern' = value
    /\ event' = Step("handlePatternChange")
    /\ UNCHANGED <<documents, selectedDocumentId, pages, selectedPages,
                   statusMessage, loadingDocuments, loadingPages, pageOffset,
                   hasMorePages, totalPageCount, fetches, listFetches, slices>>

(* the slice button is enabled *)
canSlice ==
    selectedDocumentId # null /\ (selectedPages # {} \/ trim(pagePattern) # <<>>)

(* Array.from(new Set([...parsed.pages, ...explicitPages])).sort(...) with only the parsed pages *)
combinedPagesParsedOnly(parsedPages, explicitPages) == sortAscending(asSet(parsedPages))

(* Array.from(new Set([...parsed.pages, ...explicitPages])).sort((a, b) => a - b) *)
combinedPages(parsedPages, explicitPages) ==
    sortAscending(asSet(parsedPages) \cup asSet(explicitPages))

(* sliceDecision without the check of totalPageCount *)
sliceDecisionWithoutTotalCheck(total, shown, pat, clicked) ==
    LET explicitPages == sortAscending(clicked)
        result        == parsePagePattern(pat, or(total, or(shown, 0)))
    IN  IF result.error # NoError
        THEN [issue |-> FALSE, message |-> errorMessage(result.error), pages |-> <<>>]
        ELSE LET combined == combinedPages(result.pages, explicitPages)
             IN  IF combined = <<>>
                 THEN [issue |-> FALSE, message |-> NothingSelected, pages |-> <<>>]
                 ELSE [issue |-> TRUE, message |-> "", pages |-> combined]

(* the guards of handleSlice after the check of selectedDocumentId:       *)
(* whether a request is issued, with which pages, or which message is set *)
sliceDecision(total, shown, pat, clicked) ==
    IF total = 0
    THEN [issue |-> FALSE, message |-> LoadDocumentFirst, pages |-> <<>>]
    ELSE LET explicitPages == sortAscending(clicked)
             result        == parsePagePattern(pat, or(total, or(shown, 0)))
         IN  IF result.error # NoError
             THEN [issue |-> FALSE, message |-> errorMessage(result.error), pages |-> <<>>]
             ELSE LET combined == combinedPages(result.pages, explicitPages)
                  IN  IF combined = <<>>
                      THEN [issue |-> FALSE, message |-> NothingSelected, pages |-> <<>>]
                      ELSE [issue |-> TRUE, message |-> "", pages |-> combined]

(* slicePayload with the number of pages as endPage *)
slicePayloadEndIsCount(docId, combined) ==
    [doc |-> docId, startPage |-> combined[1], endPage |-> Len(combined),
     pages |-> combined]

(* the arguments of sliceDocument(selectedDocumentId, payloadStart, payloadEnd, combinedPages) *)
slicePayload(docId, combined) ==
    [doc |-> docId, startPage |-> combined[1], endPage |-> combined[Len(combined)],
     pages |-> combined]

(* handleSlice up to the await of sliceDocument, or to its early return *)
handleSlice ==
    /\ canSlice
    /\ IF selectedDocumentId = null
       THEN UNCHANGED <<statusMessage, slices>>
       ELSE LET d == sliceDecision(totalPageCount, Len(pages), pagePattern, selectedPages)
            IN  IF d.issue
                THEN /\ BagCardinality(slices) < MaxSlices
                     /\ slices' = slices (+) SetToBag({slicePayload(selectedDocumentId, d.pages)})
                     /\ UNCHANGED statusMessage
                ELSE /\ statusMessage' = d.message
                     /\ UNCHANGED slices
    /\ event' = Step("handleSlice")
    /\ UNCHANGED <<documents, selectedDocumentId, pages, selectedPages,
                   pagePattern, loadingDocuments, loadingPages, pageOffset,
                   hasMorePages, totalPageCount, fetches, listFetches>>

(* handleSlice after the await, keeping the clicked pages *)
sliceResolvedKeepingSelection(q) ==
    /\ q \in BagToSet(slices)
    /\ listFetches < MaxListFetches
    /\ slices' = slices (-) SetToBag({q})
    /\ statusMessage' = SliceCreated
    /\ loadingDocuments' = TRUE
    /\ listFetches' = listFetches + 1
    /\ event' = SliceSettled("sliceResolved", q)
    /\ UNCHANGED <<documents, selectedDocumentId, pages, selectedPages, pagePattern,
                   loadingPages, pageOffset, hasMorePages, totalPageCount,
                   fetches>>

(* handleSlice after the await: the copy was made; loadDocuments is called *)
sliceResolved(q) ==
    /\ q \in BagToSet(slices)
    /\ listFetches < MaxListFetches
    /\ slices' = slices (-) SetToBag({q})
    /\ statusMessage' = SliceCreated
    /\ selectedPages' = {}
    /\ loadingDocuments' = TRUE
    /\ listFetches' = listFetches + 1
    /\ event' = SliceSettled("sliceResolved", q)
    /\ UNCHANGED <<documents, selectedDocumentId, pages, pagePattern,
                   loadingPages, pageOffset, hasMorePages, totalPageCount,
                   fetches>>

(* handleSlice after the await: sliceDocument rejected *)
sliceRejected(q) ==
    /\ q \in BagToSet(slices)
    /\ slices' = slices (-) SetToBag({q})
    /\ statusMessage' = RequestFailed
    /\ event' = SliceSettled("sliceRejected", q)
    /\ UNCHANGED <<documents, selectedDocumentId, pages, selectedPages,
                   pagePattern, loadingDocuments, loadingPages, pageOffset,
                   hasMorePages, totalPageCount, fetches, listFetches>>

(***************************************************************************)
(* Deletion.                                                               *)
(***************************************************************************)
MaxDeletes == 1
DocumentDeleted == "Document deleted"

(* a deleteDocument call: the document and the selectedDocumentId of the render that made the call *)
DeleteRequest(docId, selected) == [doc |-> docId, selected |-> selected]
DeleteOf(docId) == [kind |-> "delete", doc |-> docId, offset |-> 0, total |-> 0, docPages |-> 0]

(* handleDeleteDocument up to the await of deleteDocument(docId) *)
handleDeleteDocument(docId) ==
    /\ docId \in documents
    /\ BagCardinality(deletes) < MaxDeletes
    /\ deletes' = deletes (+) SetToBag({DeleteRequest(docId, selectedDocumentId)})
    /\ event' = Step("handleDeleteDocument")
    /\ UNCHANGED <<documents, selectedDocumentId, pages, selectedPages, pagePattern,
                   statusMessage, loadingDocuments, loadingPages, pageOffset,
                   hasMorePages, totalPageCount, fetches, listFetches,
                   serverDocuments>>

(* deleteResolved without setPageOffset(0) *)
deleteResolvedKeepingOffset(q) ==
    /\ q \in BagToSet(deletes)
    /\ q.doc \in serverDocuments
    /\ listFetches < MaxListFetches
    /\ deletes' = deletes (-) SetToBag({q})
    /\ serverDocuments' = serverDocuments \ {q.doc}
    /\ statusMessage' = DocumentDeleted
    /\ IF q.doc = q.selected
       THEN /\ selectedDocumentId' = null
            /\ pages' = <<>>
            /\ selectedPages' = {}
            /\ totalPageCount' = 0
            /\ pageOffset' = pageOffset
            /\ hasMorePages' = FALSE
       ELSE UNCHANGED <<selectedDocumentId, pages, selectedPages, totalPageCount,
                        pageOffset, hasMorePages>>
    /\ loadingDocuments' = TRUE
    /\ listFetches' = listFetches + 1
    /\ event' = Settled("deleteResolved", DeleteOf(q.doc), 0, 0)
    /\ UNCHANGED <<documents, pagePattern, loadingPages, fetches>>

(* handleDeleteDocument after the await: the server deleted the document; loadDocuments is called *)
deleteResolved(q) ==
    /\ q \in BagToSet(deletes)
    /\ q.doc \in serverDocuments
    /\ listFetches < MaxListFetches
    /\ deletes' = deletes (-) SetToBag({q})
    /\ serverDocuments' = serverDocuments \ {q.doc}
    /\ statusMessage' = DocumentDeleted
    /\ IF q.doc = q.selected
       THEN /\ selectedDocumentId' = null
            /\ pages' = <<>>
            /\ selectedPages' = {}
            /\ totalPageCount' = 0
            /\ pageOffset' = 0
            /\ hasMorePages' = FALSE
       ELSE UNCHANGED <<selectedDocumentId, pages, selectedPages, totalPageCount,
                        pageOffset, hasMorePages>>
    /\ loadingDocuments' = TRUE
    /\ listFetches' = listFetches + 1
    /\ event' = Settled("deleteResolved", DeleteOf(q.doc), 0, 0)
    /\ UNCHANGED <<documents, pagePattern, loadingPages, fetches>>

(* handleDeleteDocument after the await: deleteDocument rejected *)
deleteRejected(q) ==
    /\ q \in BagToSet(deletes)
    /\ deletes' = deletes (-) SetToBag({q})
    /\ statusMessage' = RequestFailed
    /\ event' = Settled("deleteRejected", DeleteOf(q.doc), 0, 0)
    /\ UNCHANGED <<documents, selectedDocumentId, pages, selectedPages, pagePattern,
                   loadingDocuments, loadingPages, pageOffset, hasMorePages,
                   totalPageCount, fetches, listFetches, serverDocuments>>

(* the page counts of the documents on the server *)
ServerPages == [d \in Docs |-> 19]

Init ==
    /\ pattern = <<>>
    /\ maxPages = 0
    /\ parsed = NotParsed
    /\ serverPages = ServerPages
    /\ AppInit

Next ==
    \/ loadDocumentsDone /\ UNCHANGED <<parserVars, slices, deleteVars, serverPages>>
    \/ loadDocumentsFailed /\ UNCHANGED <<parserVars, slices, deleteVars, serverPages>>
    \/ \E d \in Docs : handleSelectDocument(d) /\ UNCHANGED <<parserVars, slices, deleteVars, serverPages>>
    \/ \E r \in BagToSet(fetches), k \in BatchLengths, tot \in ResponseTotals :
          selectResolved(r, k, tot) /\ UNCHANGED <<parserVars, slices, deleteVars, serverPages>>
    \/ \E r \in BagToSet(fetches) : selectRejected(r) /\ UNCHANGED <<parserVars, slices, deleteVars, serverPages>>
    \/ loadMorePages /\ UNCHANGED <<parserVars, slices, deleteVars, serverPages>>
    \/ \E r \in BagToSet(fetches), k \in BatchLengths, tot \in ResponseTotals :
          loadMoreResolved(r, k, tot) /\ UNCHANGED <<parserVars, slices, deleteVars, serverPages>>
    \/ \E r \in BagToSet(fetches) : loadMoreRejected(r) /\ UNCHANGED <<parserVars, slices, deleteVars, serverPages>>

Spec == Init /\ [][Next]_vars

(***************************************************************************)
(* Deletion: the pagination handlers together with handleDeleteDocument,  *)
(* with the responses of fetchPages drawn from smaller sets.              *)
(***************************************************************************)
DeletionBatchLengths == {3}
DeletionTotals == {0}

NextDeletion ==
    \/ loadDocumentsDone /\ UNCHANGED <<parserVars, slices, deleteVars, serverPages>>
    \/ loadDocumentsFailed /\ UNCHANGED <<parserVars, slices, deleteVars, serverPages>>
    \/ \E d \in Docs : handleSelectDocument(d) /\ UNCHANGED <<parserVars, slices, deleteVars, serverPages>>
    \/ \E r \in BagToSet(fetches), k \in DeletionBatchLengths, tot \in DeletionTotals :
          selectResolved(r, k, tot) /\ UNCHANGED <<parserVars, slices, deleteVars, serverPages>>
    \/ \E r \in BagToSet(fetches) : selectRejected(r) /\ UNCHANGED <<parserVars, slices, deleteVars, serverPages>>
    \/ loadMorePages /\ UNCHANGED <<parserVars, slices, deleteVars, serverPages>>
    \/ \E r \in BagToSet(fetches), k \in DeletionBatchLengths, tot \in DeletionTotals :
          loadMoreResolved(r, k, tot) /\ UNCHANGED <<parserVars, slices, deleteVars, serverPages>>
    \/ \E r \in BagToSet(fetches) : loadMoreRejected(r) /\ UNCHANGED <<parserVars, slices, deleteVars, serverPages>>
    \/ \E d \in Docs : handleDeleteDocument(d) /\ UNCHANGED <<parserVars, slices, serverPages>>
    \/ \E q \in BagToSet(deletes) : deleteResolved(q) /\ UNCHANGED <<parserVars, slices, serverPages>>
    \/ \E q \in BagToSet(deletes) : deleteRejected(q) /\ UNCHANGED <<parserVars, slices, serverPages>>

SpecDeletion == Init /\ [][NextDeletion]_vars

(***************************************************************************)
(* The session: the pagination handlers together with selection and       *)
(* slicing, with the responses of fetchPages drawn from smaller sets.     *)
(***************************************************************************)
SessionBatchLengths == {3}
SessionTotals == {0}

NextSession ==
    \/ loadDocumentsDone /\ UNCHANGED <<parserVars, slices, deleteVars, serverPages>>
    \/ loadDocumentsFailed /\ UNCHANGED <<parserVars, slices, deleteVars, serverPages>>
    \/ \E d \in Docs : handleSelectDocument(d) /\ UNCHANGED <<parserVars, slices, deleteVars, serverPages>>
    \/ \E r \in BagToSet(fetches), k \in SessionBatchLengths, tot \in SessionTotals :
          selectResolved(r, k, tot) /\ UNCHANGED <<parserVars, slices, deleteVars, serverPages>>
    \/ \E r \in BagToSet(fetches) : selectRejected(r) /\ UNCHANGED <<parserVars, slices, deleteVars, serverPages>>
    \/ loadMorePages /\ UNCHANGED <<parserVars, slices, deleteVars, serverPages>>
    \/ \E r \in BagToSet(fetches), k \in SessionBatchLengths, tot \in SessionTotals :
          loadMoreResolved(r, k, tot) /\ UNCHANGED <<parserVars, slices, deleteVars, serverPages>>
    \/ \E r \in BagToSet(fetches) : loadMoreRejected(r) /\ UNCHANGED <<parserVars, slices, deleteVars, serverPages>>
    \/ \E p \in ClickPages : togglePageSelection(p) /\ UNCHANGED <<parserVars, deleteVars, serverPages>>
    \/ \E v \in TypedPatterns : handlePatternChange(v) /\ UNCHANGED <<parserVars, deleteVars, serverPages>>
    \/ handleSlice /\ UNCHANGED <<parserVars, deleteVars, serverPages>>
    \/ \E q \in BagToSet(slices) : sliceResolved(q) /\ UNCHANGED <<parserVars, deleteVars, serverPages>>
    \/ \E q \in BagToSet(slices) : sliceRejected(q) /\ UNCHANGED <<parserVars, deleteVars, serverPages>>

SpecSession == Init /\ [][NextSession]_vars

(***************************************************************************)
(* The loading of one document: the document list arrives, the user       *)
(* selects a document once, the observer calls loadMorePages whenever the *)
(* sentinel is shown, and the server answers every fetchPages call with   *)
(* the pages that follow the offset, at most PAGE_BATCH_SIZE of them,     *)
(* with or without total_pages.                                            *)
(***************************************************************************)
LivePageCounts == {0, 1, 3, 8, 9, 11, 16, 19}

min(a, b) == IF a <= b THEN a ELSE b
(* the number of previews the server returns for r *)
batchLength(r) == max(0, min(PAGE_BATCH_SIZE, serverPages[r.doc] - r.offset))
(* total_pages of the response for r: absent or the page count *)
batchTotals(r) == {0, serverPages[r.doc]}

InitLive ==
    /\ pattern = <<>>
    /\ maxPages = 0
    /\ parsed = NotParsed
    /\ serverPages \in [Docs -> LivePageCounts]
    /\ \A d \in Docs : ListedPages[d] # 0 => serverPages[d] = ListedPages[d]
    /\ AppInit

LiveList == loadDocumentsDone /\ UNCHANGED <<parserVars, slices, deleteVars, serverPages>>
LiveSelect ==
    /\ selectedDocumentId = null
    /\ \E d \in Docs : handleSelectDocument(d)
    /\ UNCHANGED <<parserVars, slices, deleteVars, serverPages>>
LiveSelectResolved ==
    /\ \E r \in BagToSet(fetches) : \E tot \in batchTotals(r) :
          selectResolved(r, batchLength(r), tot)
    /\ UNCHANGED <<parserVars, slices, deleteVars, serverPages>>
LiveLoadMore == loadMorePages /\ UNCHANGED <<parserVars, slices, deleteVars, serverPages>>
LiveLoadMoreResolved ==
    /\ \E r \in BagToSet(fetches) : \E tot \in batchTotals(r) :
          loadMoreResolved(r, batchLength(r), tot)
    /\ UNCHANGED <<parserVars, slices, deleteVars, serverPages>>

NextLive ==
    \/ LiveList
    \/ LiveSelect
    \/ LiveSelectResolved
    \/ LiveLoadMore
    \/ LiveLoadMoreResolved

(* every request is answered and the observer fires whenever the sentinel is shown *)
FairLive ==
    /\ WF_vars(LiveList)
    /\ WF_vars(LiveSelectResolved)
    /\ WF_vars(LiveLoadMore)
    /\ WF_vars(LiveLoadMoreResolved)

SpecLive == InitLive /\ [][NextLive]_vars /\ FairLive

(***************************************************************************)
(* Inputs of the parser specification.                                     *)
(***************************************************************************)
MaxLen == 4
MaxPagesArg == 3
Alphabet == {"0", "1", "2", "3", Comma, Hyphen, EnDash, Space, "a"}

Strings(n) == UNION {[1..k -> Alphabet] : k \in 0..n}

ExampleInputs ==
    { <<<<"1", ",", " ", "3", "-", "5", ",", " ", "1", "0">>, 10>>,
      <<<<"5", "-", "2">>, 10>>,
      <<<<"1", "-", "2", "0">>, 10>>,
      <<<<"1", "-", "2", "-", "3">>, 10>>,
      <<<<"a", "b", "c">>, 10>>,
      <<<<"3", "a", "b", "c">>, 10>>,
      <<<<"1", ",", ",", "2">>, 10>>,
      <<<<"1", ",", "2">>, 10>>,
      <<<<" ", " ", " ">>, 10>>,
      <<<<",", " ", ",">>, 10>>,
      <<<<"2", "-", "4", ",", "3", "-", "5", ",", "4">>, 10>> }

ParserInputs == (Strings(MaxLen) \X (0..MaxPagesArg)) \cup ExampleInputs

InitParse ==
    /\ \E in \in ParserInputs : pattern = in[1] /\ maxPages = in[2]
    /\ parsed = NotParsed
    /\ serverPages = ServerPages
    /\ AppInit

Parse ==
    /\ parsed = NotParsed
    /\ parsed' = parsePagePattern(pattern, maxPages)
    /\ UNCHANGED <<pattern, maxPages>>
    /\ UNCHANGED appVars

NextParse == Parse

SpecParse == InitParse /\ [][NextParse]_vars

(***************************************************************************)
(* The grammar of page patterns, stated on positions of the pattern and   *)
(* independently of the parser: what the properties below compare the     *)
(* parser against.                                                         *)
(***************************************************************************)
Delimiters == {Hyphen, EnDash}

(* s without its leading and trailing spaces *)
Strip(s) ==
    IF \A i \in 1..Len(s) : s[i] = Space THEN <<>>
    ELSE LET a == CHOOSE i \in 1..Len(s) :
                      s[i] # Space /\ \A j \in 1..(i - 1) : s[j] = Space
             b == CHOOSE i \in 1..Len(s) :
                      s[i] # Space /\ \A j \in (i + 1)..Len(s) : s[j] = Space
         IN  SubSeq(s, a, b)

(* the comma-separated pieces of p, as pairs of positions around each piece *)
Cuts(p) == {0, Len(p) + 1} \cup {i \in 1..Len(p) : p[i] = Comma}
PieceBounds(p) ==
    {c \in Cuts(p) \X Cuts(p) :
        c[1] < c[2] /\ \A k \in Cuts(p) : ~(c[1] < k /\ k < c[2])}
TokenAt(p, c) == Strip(SubSeq(p, c[1] + 1, c[2] - 1))
(* the tokens of p: its non-blank pieces, each named by its bounds *)
TokenBounds(p) == {c \in PieceBounds(p) : TokenAt(p, c) # <<>>}

IsInteger(s) == s # <<>> /\ \A i \in 1..Len(s) : s[i] \in DigitSet
RECURSIVE Pow10(_)
Pow10(n) == IF n = 0 THEN 1 ELSE 10 * Pow10(n - 1)
RECURSIVE SumValue(_, _)
SumValue(s, i) ==
    IF i > Len(s) THEN 0 ELSE DigitVal(s[i]) * Pow10(Len(s) - i) + SumValue(s, i + 1)
Value(s) == SumValue(s, 1)

HasDelimiter(t) == \E i \in 1..Len(t) : t[i] \in Delimiters
(* t is  integer delimiter integer : exactly two parts, both integers *)
DelimiterAt(t) == CHOOSE d \in 1..Len(t) : t[d] \in Delimiters
IsRange(t) ==
    /\ Cardinality({d \in 1..Len(t) : t[d] \in Delimiters}) = 1
    /\ IsInteger(Strip(SubSeq(t, 1, DelimiterAt(t) - 1)))
    /\ IsInteger(Strip(SubSeq(t, DelimiterAt(t) + 1, Len(t))))
RangeStart(t) == Value(Strip(SubSeq(t, 1, DelimiterAt(t) - 1)))
RangeEnd(t) == Value(Strip(SubSeq(t, DelimiterAt(t) + 1, Len(t))))

ValidToken(t, m) ==
    \/ IsInteger(t) /\ 1 <= Value(t) /\ Value(t) <= m
    \/ IsRange(t) /\ 1 <= RangeStart(t) /\ RangeStart(t) <= RangeEnd(t) /\ RangeEnd(t) <= m
TokenPages(t) == IF IsInteger(t) THEN {Value(t)} ELSE RangeStart(t)..RangeEnd(t)

(* every token of p to the left of the token at c is valid *)
ValidBefore(p, c, m) ==
    \A b \in TokenBounds(p) : b[2] <= c[1] => ValidToken(TokenAt(p, b), m)

Done == parsed # NotParsed
Ascending(q) == \A i \in 1..(Len(q) - 1) : q[i] < q[i + 1]
Elements(q) == {q[i] : i \in 1..Len(q)}

(***************************************************************************)
(* C6: a pattern with at least one token, all of whose tokens are valid   *)
(* for maxPages, parses without error to the union of its single numbers  *)
(* and of the integers of its ranges, strictly ascending (hence without   *)
(* duplicates) and within 1..maxPages.                                     *)
(***************************************************************************)
C6_ValidPatternParsesToUnion ==
    (/\ Done
     /\ TokenBounds(pattern) # {}
     /\ \A c \in TokenBounds(pattern) : ValidToken(TokenAt(pattern, c), maxPages))
    => /\ parsed.error = NoError
       /\ Elements(parsed.pages) =
              UNION {TokenPages(TokenAt(pattern, c)) : c \in TokenBounds(pattern)}
       /\ Ascending(parsed.pages)
       /\ Elements(parsed.pages) \subseteq 1..maxPages

C6_Witness ==
    /\ pattern = <<"1", ",", " ", "3", "-", "5", ",", " ", "1", "0">>
    /\ maxPages = 10
    /\ parsed = [pages |-> <<1, 3, 4, 5, 10>>, error |-> NoError]

(***************************************************************************)
(* C7: a range token start-end reached by the parser (every token to its  *)
(* left is valid) fails as out of order when start < 1 or end < start,    *)
(* and as exceeding the document when start >= 1, end >= start and        *)
(* end > maxPages; the two errors differ.                                  *)
(***************************************************************************)
C7_RangeErrors ==
    Done =>
      \A c \in TokenBounds(pattern) :
        LET t == TokenAt(pattern, c)
        IN  (IsRange(t) /\ ValidBefore(pattern, c, maxPages)) =>
              /\ (RangeStart(t) < 1 \/ RangeEnd(t) < RangeStart(t))
                    => parsed = Failure("RangeOutOfOrder", t, 0)
              /\ (RangeStart(t) >= 1 /\ RangeEnd(t) >= RangeStart(t)
                    /\ RangeEnd(t) > maxPages)
                    => /\ parsed = Failure("RangeExceedsDocument", <<>>, maxPages)
                       /\ parsed.error.kind # "RangeOutOfOrder"

C7_Witness ==
    /\ pattern = <<"5", "-", "2">>
    /\ maxPages = 10
    /\ parsed.error.kind = "RangeOutOfOrder"

(***************************************************************************)
(* C8: a token with a range delimiter that is not  integer delimiter      *)
(* integer  (a part missing, not a number, followed by other characters,  *)
(* or more than two parts) fails with InvalidRange when the parser        *)
(* reaches it, and gives no pages.                                         *)
(***************************************************************************)
C8_MalformedRangeRejected ==
    Done =>
      \A c \in TokenBounds(pattern) :
        LET t == TokenAt(pattern, c)
        IN  (HasDelimiter(t) /\ ~IsRange(t) /\ ValidBefore(pattern, c, maxPages))
              => parsed = Failure("InvalidRange", t, 0)

(***************************************************************************)
(* C9: a token without a range delimiter reached by the parser fails with *)
(* InvalidPageNumber when it is not an integer, with PageOutOfRange when  *)
(* its value is outside 1..maxPages, and otherwise adds its value.        *)
(***************************************************************************)
C9_SingleNumberToken ==
    Done =>
      \A c \in TokenBounds(pattern) :
        LET t == TokenAt(pattern, c)
        IN  (~HasDelimiter(t) /\ ValidBefore(pattern, c, maxPages)) =>
              /\ ~IsInteger(t) => parsed = Failure("InvalidPageNumber", t, 0)
              /\ (IsInteger(t) /\ (Value(t) < 1 \/ Value(t) > maxPages))
                    => parsed = Failure("PageOutOfRange", <<>>, Value(t))
              /\ (IsInteger(t) /\ Value(t) >= 1 /\ Value(t) <= maxPages
                    /\ parsed.error = NoError)
                    => Value(t) \in Elements(parsed.pages)

(***************************************************************************)
(* C10: the parser fails with EmptyPattern exactly when the pattern holds *)
(* nothing but commas and white space, and an empty piece between two     *)
(* commas is discarded: a pattern with a blank piece parses like the      *)
(* pattern without the comma that ends that piece.                         *)
(***************************************************************************)
RemoveAt(s, i) == SubSeq(s, 1, i - 1) \o SubSeq(s, i + 1, Len(s))

C10_EmptyPattern ==
    Done =>
      /\ (parsed = Failure("EmptyPattern", <<>>, 0))
            <=> (\A i \in 1..Len(pattern) : pattern[i] \in {Comma, Space})
      /\ \A c \in PieceBounds(pattern) :
            (TokenAt(pattern, c) = <<>> /\ c[2] <= Len(pattern))
            => parsed = parsePagePattern(RemoveAt(pattern, c[2]), maxPages)

C10_Witness ==
    /\ pattern = <<"1", ",", ",", "2">>
    /\ maxPages = 10
    /\ parsed = [pages |-> <<1, 2>>, error |-> NoError]

(***************************************************************************)
(* Properties of the pagination window.  A step is recognised by the      *)
(* event it leaves: the handler that ran and the request it settled.      *)
(***************************************************************************)
ResolvedOps == {"selectResolved", "loadMoreResolved"}
RejectedOps == {"selectRejected", "loadMoreRejected"}

(* the number of unsettled fetchPages calls for document d *)
Unsettled(d) ==
    LET S == {r \in BagToSet(fetches) : r.doc = d}
        RECURSIVE Sum(_)
        Sum(T) == IF T = {} THEN 0
                  ELSE LET r == CHOOSE x \in T : TRUE
                       IN  CopiesIn(r, fetches) + Sum(T \ {r})
    IN  Sum(S)

(***************************************************************************)
(* C1: a fetchPages response, or rejection, of a request issued for a     *)
(* document other than the active one leaves the page sequence, the       *)
(* offset, the total page count, hasMorePages and the page pattern as     *)
(* they were.                                                              *)
(***************************************************************************)
C1_StaleResponseIgnored ==
    [][(/\ event'.op \in ResolvedOps \cup RejectedOps
        /\ selectedDocumentId \in Docs
        /\ event'.req.doc # selectedDocumentId)
       => UNCHANGED <<pages, pageOffset, totalPageCount, hasMorePages, pagePattern>>]_vars

(***************************************************************************)
(* C2: at most one unsettled preview fetch targets the active document.   *)
(***************************************************************************)
C2_OneFetchPerWindow ==
    selectedDocumentId \in Docs => Unsettled(selectedDocumentId) <= 1

(***************************************************************************)
(* C3: selecting a document and receiving 8, 8 and 3 previews without     *)
(* total_pages: hasMorePages holds after the first and after the second   *)
(* response, and after the third it is false with 19 previews loaded and  *)
(* the offset at 19, whatever page count the document list gave.          *)
(***************************************************************************)
OnlyFetch(r) == fetches = SetToBag({r})

C3_ExhaustedAfterShortBatch ==
    [][LET r == event'.req
           d == selectedDocumentId
       IN  /\ (/\ event'.op = "selectResolved" /\ event'.k = 8 /\ event'.tot = 0
               /\ r.doc = d /\ OnlyFetch(r) /\ event.op = "handleSelectDocument")
              => hasMorePages' /\ Len(pages') = 8 /\ pageOffset' = 8
           /\ (/\ event'.op = "loadMoreResolved" /\ event'.k = 8 /\ event'.tot = 0
               /\ r.doc = d /\ OnlyFetch(r) /\ r.offset = 8
               /\ pages = previews(d, 0, 8) /\ pageOffset = 8 /\ hasMorePages)
              => hasMorePages' /\ Len(pages') = 16 /\ pageOffset' = 16
           /\ (/\ event'.op = "loadMoreResolved" /\ event'.k = 3 /\ event'.tot = 0
               /\ r.doc = d /\ OnlyFetch(r) /\ r.offset = 16
               /\ pages = previews(d, 0, 16) /\ pageOffset = 16 /\ hasMorePages)
              => ~hasMorePages' /\ Len(pages') = 19 /\ pageOffset' = 19]_vars

(***************************************************************************)
(* C4: a rejected preview fetch, initial or load-more, leaves the page    *)
(* sequence and the offset as they were and puts the failure in           *)
(* statusMessage; issuing a load-more fetch changes neither, and the      *)
(* initial fetch is issued with the sequence empty and the offset 0.      *)
(***************************************************************************)
C4_FailureKeepsWindow ==
    [][/\ event'.op \in RejectedOps
          => /\ pages' = pages
             /\ pageOffset' = pageOffset
             /\ statusMessage' = RequestFailed
       /\ event'.op = "loadMorePages"
          => pages' = pages /\ pageOffset' = pageOffset
       /\ event'.op = "handleSelectDocument"
          => pages' = <<>> /\ pageOffset' = 0]_vars

C4_Witness ==
    /\ event.op = "loadMoreRejected"
    /\ event.req.doc = selectedDocumentId
    /\ event.req.offset = 8
    /\ pageOffset = 8
    /\ pages = previews(selectedDocumentId, 0, 8)
    /\ statusMessage = RequestFailed

(***************************************************************************)
(* C5: after a preview fetch of the active document is rejected, initial  *)
(* or load-more, loadingPages is cleared and the window is not exhausted: *)
(* the guard of loadMorePages passes again, at the offset of the rejected *)
(* request.                                                                *)
(***************************************************************************)
C5_FailureAllowsRetry ==
    [][(/\ event'.op \in RejectedOps
        /\ event'.req.doc = selectedDocumentId
        /\ OnlyFetch(event'.req))
       => /\ ~loadingPages'
          /\ hasMorePages'
          /\ selectedDocumentId' = event'.req.doc
          /\ pageOffset' = event'.req.offset]_vars

(***************************************************************************)
(* C11: the hyphen and the en-dash are interchangeable: turning any one   *)
(* delimiter character of the pattern into the other one gives the same   *)
(* pages, or an error of the same kind.                                    *)
(***************************************************************************)
Flip(c) == IF c = Hyphen THEN EnDash ELSE Hyphen
FlipAt(s, i) == [s EXCEPT ![i] = Flip(s[i])]

C11_DelimitersInterchangeable ==
    Done =>
      \A i \in 1..Len(pattern) :
        pattern[i] \in Delimiters =>
          LET other == parsePagePattern(FlipAt(pattern, i), maxPages)
          IN  /\ other.pages = parsed.pages
              /\ other.error.kind = parsed.error.kind

C11_Witness ==
    /\ pattern = <<"1", EnDash, "3">>
    /\ maxPages = 3
    /\ parsed = [pages |-> <<1, 2, 3>>, error |-> NoError]

(***************************************************************************)
(* Properties of selection and slicing.  The request a step of            *)
(* handleSlice issues is the payload that step adds to slices.            *)
(***************************************************************************)
SliceIssued == event'.op = "handleSlice" /\ slices' # slices
NewSlice == CHOOSE q \in BagToSet(slices') : CopiesIn(q, slices') > CopiesIn(q, slices)
ParsedNow == parsePagePattern(pagePattern, totalPageCount)

(***************************************************************************)
(* C12: the pages handleSlice sends are the union of the parsed pages and *)
(* of the clicked pages, ascending and without duplicates.                *)
(***************************************************************************)
C12_ReconciledIsUnion ==
    [][SliceIssued =>
         /\ Ascending(NewSlice.pages)
         /\ Elements(NewSlice.pages) = Elements(ParsedNow.pages) \cup selectedPages]_vars

C12_Witness ==
    /\ event.op = "handleSlice"
    /\ pagePattern = <<"1", "-", "3">>
    /\ selectedPages = {4}
    /\ \E q \in BagToSet(slices) : q.pages = <<1, 2, 3, 4>>

(***************************************************************************)
(* C13: every slice request carries a non-empty page list, with startPage *)
(* its minimum and endPage its maximum, so that every page of the list    *)
(* lies between the two.                                                   *)
(***************************************************************************)
C13_PayloadBounds ==
    \A q \in BagToSet(slices) :
        /\ q.pages # <<>>
        /\ q.startPage \in Elements(q.pages)
        /\ q.endPage \in Elements(q.pages)
        /\ \A p \in Elements(q.pages) : q.startPage <= p /\ p <= q.endPage

C13_Witness ==
    \E q \in BagToSet(slices) : q.startPage = 4 /\ q.endPage = 4 /\ q.pages = <<4>>

C15_SliceByClicksAlone ==
    [][(/\ event'.op = "handleSlice"
        /\ selectedDocumentId \in Docs
        /\ totalPageCount # 0
        /\ selectedPages # {}
        /\ Strip(pagePattern) = <<>>
        /\ BagCardinality(slices) < MaxSlices)
       => /\ canSlice
          /\ SliceIssued
          /\ selectedPages \subseteq Elements(NewSlice.pages)]_vars

(***************************************************************************)
(* C16, as claimed: a successful slice resets the clicked pages and the   *)
(* pagination window.                                                      *)
(***************************************************************************)
C16_SliceResetsSession ==
    [][event'.op = "sliceResolved" =>
         /\ selectedPages' = {}
         /\ pages' = <<>>
         /\ pageOffset' = 0
         /\ ~hasMorePages']_vars

(***************************************************************************)
(* C16, amended: a successful slice empties the clicked pages and leaves  *)
(* the pagination window, the page pattern and the active document as     *)
(* they were.                                                              *)
(***************************************************************************)
C16_SliceClearsSelectionOnly ==
    [][event'.op = "sliceResolved" =>
         /\ selectedPages' = {}
         /\ UNCHANGED <<pages, pageOffset, hasMorePages, totalPageCount,
                        pagePattern, selectedDocumentId>>]_vars

C16_Witness ==
    /\ event.op = "sliceResolved"
    /\ 4 \in Elements(event.slice.pages)
    /\ selectedPages = {}
    /\ pages # <<>>

(***************************************************************************)
(* C18: after a successful preview fetch, initial or load-more, with      *)
(* fewer than 8 previews the window is exhausted, whatever the totals;    *)
(* and it is exhausted when the new offset reaches a known total.         *)
(***************************************************************************)
C18_ShortBatchExhausts ==
    [][event'.op \in ResolvedOps =>
         /\ event'.k < PAGE_BATCH_SIZE => ~hasMorePages'
         /\ (totalPageCount' # 0 /\ pageOffset' >= totalPageCount') => ~hasMorePages']_vars

(***************************************************************************)
(* C19: a successful load-more response with k previews appends them, in  *)
(* the order of the response, after the sequence, which stays as a        *)
(* prefix, and moves the offset on by k.                                   *)
(***************************************************************************)
C19_LoadMoreAppends ==
    [][event'.op = "loadMoreResolved" =>
         /\ Len(pages') = Len(pages) + event'.k
         /\ SubSeq(pages', 1, Len(pages)) = pages
         /\ \A i \in 1..event'.k :
               pages'[Len(pages) + i] = <<event'.req.doc, event'.req.offset + i>>
         /\ pageOffset' = pageOffset + event'.k]_vars

C19_Witness ==
    /\ event.op = "loadMoreResolved"
    /\ event.k = 8
    /\ pages = previews("A", 0, 16)
    /\ pageOffset = 16

(***************************************************************************)
(* C20: a response whose request was issued at an offset other than the   *)
(* offset at the time it is applied is discarded: the sequence and the    *)
(* offset stay as they were.                                               *)
(***************************************************************************)
C20_OffsetMismatchDiscarded ==
    [][(event'.op \in ResolvedOps /\ event'.req.offset # pageOffset)
       => UNCHANGED <<pages, pageOffset>>]_vars

(***************************************************************************)
(* C21: the previews of one document appear in the page sequence with     *)
(* strictly increasing page indices, so no index appears twice.           *)
(***************************************************************************)
C21_StrictlyIncreasingIndices ==
    \A i, j \in 1..Len(pages) :
        (i < j /\ pages[i][1] = pages[j][1]) => pages[i][2] < pages[j][2]

C23_LoadMoreOnlyWhenIdle ==
    [][event'.op = "loadMorePages" =>
         /\ selectedDocumentId # null
         /\ hasMorePages
         /\ Unsettled(selectedDocumentId) = 0]_vars

(***************************************************************************)
(* C24: after a successful fetch the total page count is the total_pages  *)
(* of the response when it has one, else the total known before the        *)
(* response when there is one, else the number of previews accumulated.   *)
(***************************************************************************)
C24_TotalFallback ==
    [][event'.op \in ResolvedOps =>
         totalPageCount' = IF event'.tot # 0 THEN event'.tot
                           ELSE IF totalPageCount # 0 THEN totalPageCount
                           ELSE Len(pages')]_vars

(***************************************************************************)
(* C25: when the deletion of a document succeeds, the session is reset if *)
(* the document is the active one at that moment and is left as it was    *)
(* otherwise; the deleted document is not the active one afterwards.      *)
(***************************************************************************)
C25_ResetIffActive ==
    [][event'.op = "deleteResolved" =>
         /\ IF event'.req.doc = selectedDocumentId
            THEN /\ selectedDocumentId' = null
                 /\ pages' = <<>>
                 /\ selectedPages' = {}
                 /\ totalPageCount' = 0
                 /\ pageOffset' = 0
                 /\ ~hasMorePages'
            ELSE UNCHANGED <<selectedDocumentId, pages, selectedPages,
                             totalPageCount, pageOffset, hasMorePages>>
         /\ selectedDocumentId' # event'.req.doc]_vars

(***************************************************************************)
(* C26: the page offset is the length of the page sequence.               *)
(***************************************************************************)
C26_OffsetIsLength == pageOffset = Len(pages)

C26_Witness ==
    /\ event.op = "loadMoreResolved"
    /\ selectedDocumentId = null
    /\ event.req.offset = 3
    /\ Len(pages) = 3
    /\ pageOffset = 3

(***************************************************************************)
(* C27: while no document is active the page sequence is empty, the       *)
(* offset is 0 and hasMorePages is false.                                  *)
(***************************************************************************)
C27_NoDocumentNoWindow ==
    selectedDocumentId = null => (pages = <<>> /\ pageOffset = 0 /\ ~hasMorePages)

(***************************************************************************)
(* C28: every page number of a slice request lies between 1 and the total *)
(* page count of the document the request is issued for.                  *)
(***************************************************************************)
C28_PagesWithinDocument ==
    [][SliceIssued =>
         \A p \in Elements(NewSlice.pages) : 1 <= p /\ p <= totalPageCount]_vars

(***************************************************************************)
(* C29: the success of a slice request issued for a document other than   *)
(* the active one leaves the clicked pages as they were.                  *)
(***************************************************************************)
C29_SliceCompletionKeepsOtherSelection ==
    [][(event'.op = "sliceResolved" /\ event'.slice.doc # selectedDocumentId)
       => selectedPages' = selectedPages]_vars

(***************************************************************************)
(* C30: when some token of the pattern is invalid the parser returns an   *)
(* error and no pages, and the error is the one the leftmost invalid      *)
(* token gives when parsed on its own.                                     *)
(***************************************************************************)
C30_AllOrNothingLeftmost ==
    Done =>
      /\ parsed.error # NoError => parsed.pages = <<>>
      /\ \A c \in TokenBounds(pattern) :
           LET t == TokenAt(pattern, c)
           IN  (~ValidToken(t, maxPages) /\ ValidBefore(pattern, c, maxPages))
                 => /\ parsed.error # NoError
                    /\ parsed.pages = <<>>
                    /\ parsed.error = parsePagePattern(t, maxPages).error

(***************************************************************************)
(* C31: once a document is active, the window eventually holds every page *)
(* of the document exactly once, with the offset at the page count and    *)
(* hasMorePages false, and from then on no fetch is issued.               *)
(***************************************************************************)
AllPagesLoaded ==
    /\ selectedDocumentId \in Docs
    /\ ~hasMorePages
    /\ pages = previews(selectedDocumentId, 0, serverPages[selectedDocumentId])
    /\ pageOffset = serverPages[selectedDocumentId]
    /\ fetches = EmptyBag

C31_EventuallyAllPagesLoaded ==
    [](selectedDocumentId \in Docs => <>[]AllPagesLoaded)

====
